---- MODULE Spec2Model ----
(***************************************************************************)
(* bun-socket-scanner: the Socket.dev security scanner for `bun install`.  *)
(*                                                                         *)
(* The model covers the concurrent scanner of src/src/scanner.ts (with its *)
(* credential lookup of src/src/secrets.ts and its threshold overrides)    *)
(* and the earlier sequential scanner of src/index.ts.                     *)
(*                                                                         *)
(* Numbers (scores, thresholds) are kept in hundredths: 30 is 0.3.         *)
(* JavaScript's `undefined` is the string token Undefined, so that an      *)
(* absent field and an empty string stay different values.                 *)
(***************************************************************************)
EXTENDS Integers, Sequences, FiniteSets, TLC

VARIABLES
    env,                    \* Bun.env: the variables the program reads
    secretStore,            \* Bun.secrets entry of the scanner
    FATAL_RISK_THRESHOLD,   \* module constant of scanner.ts, set at load
    WARN_RISK_THRESHOLD,    \* module constant of scanner.ts, set at load
    impl,                   \* which scanner runs: "concurrent" | "sequential"
    packages,               \* the argument of scan
    pc,                     \* position of the scan call
    idx,                    \* sequential scanner: index of the current package
    issuesResult,           \* per package: the getIssuesByNPMPackage promise
    scoreResult,            \* per package: the getScoreByNPMPackage promise
    issued,                 \* per package: how many queries of each kind were sent
    issuePass,              \* per package: riskLevel/description after the issue pass
    taskResult,             \* per package: outcome of its async task
    advisories,             \* the advisories array
    outcome,                \* how the scan promise settled
    log,                    \* logger.warn / console.warn calls, in order
    client,                 \* the key handed to new SocketSdk
    input,                  \* readPassword: the characters collected so far
    cleanupCalled,          \* readPassword: the flag of cleanup
    stdin,                  \* process.stdin: raw mode, flow, data listeners
    stdout,                 \* process.stdout: what readPassword wrote
    password,               \* the promise readPassword returns
    received                \* the data chunks stdin delivered, in order

pwVars == <<input, cleanupCalled, stdin, stdout, password, received>>

scanVars == <<env, secretStore, FATAL_RISK_THRESHOLD, WARN_RISK_THRESHOLD, impl,
              packages, pc, idx, issuesResult, scoreResult, issued, issuePass,
              taskResult, advisories, outcome, log, client>>

vars == <<scanVars, pwVars>>

-----------------------------------------------------------------------------
(* Bounds of the model *)

\* longest issue list a query returns in a single-package scan
MaxIssues == 2

\* largest batch handed to scan
MaxPkgs == 2

\* how many data chunks stdin delivers to one readPassword call
MaxChunks == 3

\* how many bytes one data chunk holds at most
MaxChunkLen == 2

-----------------------------------------------------------------------------
(* JavaScript helpers *)

Undefined == "<undefined>"

\* a ?? b
Nullish(a, b) == IF a = Undefined THEN b ELSE a

\* Array.prototype.indexOf, 0-based, -1 when absent
indexOf(arr, x) ==
    IF \E i \in 1..Len(arr) : arr[i] = x
    THEN (CHOOSE i \in 1..Len(arr) : arr[i] = x /\ \A j \in 1..(i - 1) : arr[j] # x) - 1
    ELSE -1

\* Array.prototype.lastIndexOf, 0-based, -1 when absent
lastIndexOf(arr, x) ==
    IF \E i \in 1..Len(arr) : arr[i] = x
    THEN (CHOOSE i \in 1..Len(arr) : arr[i] = x /\ \A j \in (i + 1)..Len(arr) : arr[j] # x) - 1
    ELSE -1

-----------------------------------------------------------------------------
(* Values exchanged with the risk service *)

\* An issue of the risk service: its type, and value.category / value.severity
\* (Undefined when the field, or the whole value object, is missing).
Issue(type, category, severity) ==
    [type |-> type, category |-> category, severity |-> severity]

\* Text of a description, kept structured: the fixed prefix is `kind`, the
\* listed entries are `items`, the interpolated score is `score`.
Description(kind, items, score) == [kind |-> kind, items |-> items, score |-> score]

\* no score is interpolated
NoScore == <<>>

EmptyDescription == Description("", <<>>, NoScore)

SupplyChainText == "Supply chain risks found: "
GenericText == "Security issues found: "
HighText == "High supply chain risk (score: )"
ModerateText == "Moderate supply chain risk (score: )"
FallbackText == "Security concerns detected for "

-----------------------------------------------------------------------------
(* The issue pass: scanner.ts lines 72-123 *)

severityOrder == <<"critical", "high", "middle", "low">>

\* the comparator handed to Array.prototype.sort
compareSeverity(a, b) ==
    LET aIndex == indexOf(severityOrder, Nullish(a.severity, ""))
        bIndex == indexOf(severityOrder, Nullish(b.severity, ""))
    IN  aIndex - bIndex

\* Array.prototype.sort is stable: x goes behind every element that does not
\* compare greater than it.
RECURSIVE insertSorted(_, _)
insertSorted(sorted, x) ==
    IF sorted = <<>> THEN <<x>>
    ELSE IF compareSeverity(sorted[Len(sorted)], x) <= 0
         THEN Append(sorted, x)
         ELSE Append(insertSorted(SubSeq(sorted, 1, Len(sorted) - 1), x),
                     sorted[Len(sorted)])

RECURSIVE sortIssues(_)
sortIssues(arr) ==
    IF arr = <<>> THEN <<>>
    ELSE insertSorted(sortIssues(SubSeq(arr, 1, Len(arr) - 1)), arr[Len(arr)])

\* issues.filter(issue => issue.value?.category === 'supplyChainRisk')
supplyChainIssuesOf(issues) ==
    SelectSeq(issues, LAMBDA issue : issue.category = "supplyChainRisk")

\* `${severity ?? ''} ${type ?? ''}`
issueMessage(issue) == <<Nullish(issue.severity, ""), Nullish(issue.type, "")>>

\* .filter((msg, index, array) => array.indexOf(msg) === array.lastIndexOf(msg))
RECURSIVE filterMessages(_, _)
filterMessages(array, n) ==
    IF n = 0 THEN <<>>
    ELSE LET rest == filterMessages(array, n - 1)
         IN  IF indexOf(array, array[n]) = lastIndexOf(array, array[n])
             THEN Append(rest, array[n])
             ELSE rest

messagesOf(sortedIssues) ==
    LET mapped == [i \in 1..Len(sortedIssues) |-> issueMessage(sortedIssues[i])]
    IN  filterMessages(mapped, Len(mapped))

\* issues.map(i => i.type ?? 'unknown')
issueTypesOf(issues) ==
    [i \in 1..Len(issues) |-> <<Nullish(issues[i].type, "unknown")>>]

\* riskLevel of the supply-chain branch, from the first issue after sorting
levelOfHighest(highestSeverity) ==
    IF highestSeverity = "critical" \/ highestSeverity = "high"
    THEN "fatal" ELSE "warn"

PassState(threw, riskLevel, description, primaryIssueType) ==
    [threw |-> threw, riskLevel |-> riskLevel, description |-> description,
     primaryIssueType |-> primaryIssueType]

\* the locals declared at lines 68-70
InitialPass == PassState(FALSE, "safe", EmptyDescription, Undefined)

\* reading .length of a payload that is not an array raises a TypeError
ThrownPass == PassState(TRUE, "safe", EmptyDescription, Undefined)

\* lines 73-122: the issue list was retrieved
issuePassOnData(issues) ==
    IF Len(issues) = 0 THEN InitialPass
    ELSE LET supplyChainIssues == supplyChainIssuesOf(issues)
         IN  IF Len(supplyChainIssues) > 0
             THEN LET sortedIssues == sortIssues(supplyChainIssues)
                      firstIssue == sortedIssues[1]
                  IN  PassState(FALSE,
                                levelOfHighest(firstIssue.severity),
                                Description(SupplyChainText, messagesOf(sortedIssues), NoScore),
                                firstIssue.type)
             ELSE PassState(FALSE, "warn",
                            Description(GenericText, issueTypesOf(issues), NoScore),
                            Undefined)

\* a variant that flags a package whose issue query failed
IssuePassFailClosed(ir) ==
    IF ~(ir.status = "fulfilled" /\ ir.success)
    THEN PassState(FALSE, "warn", EmptyDescription, Undefined)
    ELSE IF ~ir.dataOk THEN ThrownPass
    ELSE issuePassOnData(ir.data)

\* line 72: a rejected or unsuccessful query leaves the locals untouched
IssuePass(ir) ==
    IF ~(ir.status = "fulfilled" /\ ir.success) THEN InitialPass
    ELSE IF ~ir.dataOk THEN ThrownPass
    ELSE issuePassOnData(ir.data)

-----------------------------------------------------------------------------
(* The score pass: scanner.ts lines 125-144 *)

\* a variant that escalates but keeps an issue description
scoreRuleKeepsDescription(st, riskScore, fatalThreshold, warnThreshold) ==
    IF riskScore < fatalThreshold
    THEN IF st.riskLevel # "fatal"
         THEN [st EXCEPT !.riskLevel = "fatal",
                         !.description = IF st.description = EmptyDescription
                                          THEN Description(HighText, <<>>, <<riskScore>>)
                                          ELSE st.description]
         ELSE st
    ELSE IF riskScore < warnThreshold
    THEN IF st.riskLevel # "fatal"
         THEN [st EXCEPT !.riskLevel = "warn",
                         !.description =
                             IF st.description = EmptyDescription
                             THEN Description(ModerateText, <<>>, <<riskScore>>)
                             ELSE st.description]
         ELSE st
    ELSE st

\* a variant without the guard of line 130
scoreRuleAlwaysOverwrites(st, riskScore, fatalThreshold, warnThreshold) ==
    IF riskScore < fatalThreshold
    THEN IF TRUE
         THEN [st EXCEPT !.riskLevel = "fatal",
                         !.description = Description(HighText, <<>>, <<riskScore>>)]
         ELSE st
    ELSE IF riskScore < warnThreshold
    THEN IF st.riskLevel # "fatal"
         THEN [st EXCEPT !.riskLevel = "warn",
                         !.description =
                             IF st.description = EmptyDescription
                             THEN Description(ModerateText, <<>>, <<riskScore>>)
                             ELSE st.description]
         ELSE st
    ELSE st

\* a variant comparing with <= at line 129
scoreRuleInclusiveFatal(st, riskScore, fatalThreshold, warnThreshold) ==
    IF riskScore <= fatalThreshold
    THEN IF st.riskLevel # "fatal"
         THEN [st EXCEPT !.riskLevel = "fatal",
                         !.description = Description(HighText, <<>>, <<riskScore>>)]
         ELSE st
    ELSE IF riskScore < warnThreshold
    THEN IF st.riskLevel # "fatal"
         THEN [st EXCEPT !.riskLevel = "warn",
                         !.description =
                             IF st.description = EmptyDescription
                             THEN Description(ModerateText, <<>>, <<riskScore>>)
                             ELSE st.description]
         ELSE st
    ELSE st

\* a variant without the guard of line 136
scoreRuleBandOverwrites(st, riskScore, fatalThreshold, warnThreshold) ==
    IF riskScore < fatalThreshold
    THEN IF st.riskLevel # "fatal"
         THEN [st EXCEPT !.riskLevel = "fatal",
                         !.description = Description(HighText, <<>>, <<riskScore>>)]
         ELSE st
    ELSE IF riskScore < warnThreshold
    THEN [st EXCEPT !.riskLevel = "warn",
                    !.description =
                        IF st.description = EmptyDescription
                        THEN Description(ModerateText, <<>>, <<riskScore>>)
                        ELSE st.description]
    ELSE st

\* lines 128-142: the score is present
\* a variant that escalates to fatal without writing a description
scoreRuleSilentFatal(st, riskScore, fatalThreshold, warnThreshold) ==
    IF riskScore < fatalThreshold
    THEN IF st.riskLevel # "fatal"
         THEN [st EXCEPT !.riskLevel = "fatal"]
         ELSE st
    ELSE IF riskScore < warnThreshold
    THEN IF st.riskLevel # "fatal"
         THEN [st EXCEPT !.riskLevel = "warn",
                         !.description =
                             IF st.description = EmptyDescription
                             THEN Description(ModerateText, <<>>, <<riskScore>>)
                             ELSE st.description]
         ELSE st
    ELSE st

scoreRule(st, riskScore, fatalThreshold, warnThreshold) ==
    IF riskScore < fatalThreshold
    THEN IF st.riskLevel # "fatal"
         THEN [st EXCEPT !.riskLevel = "fatal",
                         !.description = Description(HighText, <<>>, <<riskScore>>)]
         ELSE st
    ELSE IF riskScore < warnThreshold
    THEN IF st.riskLevel # "fatal"
         THEN [st EXCEPT !.riskLevel = "warn",
                         !.description =
                             IF st.description = EmptyDescription
                             THEN Description(ModerateText, <<>>, <<riskScore>>)
                             ELSE st.description]
         ELSE st
    ELSE st

\* lines 125-127: a failed query or a missing score leaves the locals untouched
ScorePass(st, sr, fatalThreshold, warnThreshold) ==
    IF st.threw THEN st
    ELSE IF ~(sr.status = "fulfilled" /\ sr.success) THEN st
    ELSE IF ~sr.hasScore THEN st
    ELSE scoreRule(st, sr.score, fatalThreshold, warnThreshold)

-----------------------------------------------------------------------------
(* The advisory: scanner.ts lines 146-163 *)

Url(kind, issueType, name, version) ==
    [kind |-> kind, issueType |-> issueType, name |-> name, version |-> version]

PackageUrl(pkg) == Url("https://socket.dev/npm/package/", "", pkg.name, pkg.version)

IssueUrl(primaryIssueType) == Url("https://socket.dev/npm/issue/", primaryIssueType, "", "")

\* description.includes('Supply chain risks found:')
includesSupplyChainText(description) == description.kind = SupplyChainText

Advisory(level, package, description, url) ==
    [level |-> level, package |-> package, description |-> description, url |-> url]

\* the value an async task resolves with: an advisory, or null
TaskValue(hasValue, value) == [hasValue |-> hasValue, value |-> value]

NullValue == TaskValue(FALSE, Advisory("", "", EmptyDescription, Url("", "", "", "")))

\* the promise of a per-package task
Task(status, value) == [status |-> status, value |-> value]
TaskUnstarted == Task("unstarted", NullValue)
TaskPending == Task("pending", NullValue)

\* a variant without the guard of line 146
advisoryOfAlways(pkg, st) ==
    TaskValue(TRUE, Advisory(st.riskLevel, pkg.name,
                             IF st.description # EmptyDescription
                             THEN st.description
                             ELSE Description(FallbackText, <<<<pkg.name, pkg.version>>>>, NoScore),
                             PackageUrl(pkg)))

advisoryOf(pkg, st) ==
    IF st.riskLevel # "safe"
    THEN LET url == IF /\ includesSupplyChainText(st.description)
                       /\ st.primaryIssueType # Undefined
                       /\ st.primaryIssueType # ""
                    THEN IssueUrl(st.primaryIssueType)
                    ELSE PackageUrl(pkg)
             description ==
                    IF st.description # EmptyDescription
                    THEN st.description
                    ELSE Description(FallbackText, <<<<pkg.name, pkg.version>>>>, NoScore)
         IN  TaskValue(TRUE, Advisory(st.riskLevel, pkg.name, description, url))
    ELSE NullValue

\* body of the async task of one package (lines 61-169): how its promise
\* settles (the catch block turns a throw into null) and whether it threw
processPackage(pkg, ir, sr, fatalThreshold, warnThreshold) ==
    LET afterIssues == IssuePass(ir)
        st == ScorePass(afterIssues, sr, fatalThreshold, warnThreshold)
    IN  [threw |-> st.threw,
         afterIssues |-> afterIssues,
         task |-> Task("fulfilled", IF st.threw THEN NullValue ELSE advisoryOf(pkg, st))]


-----------------------------------------------------------------------------
(* The sequential scanner of src/index.ts: lines 47-135 *)

SEQ_FATAL_RISK_THRESHOLD == 30
SEQ_WARN_RISK_THRESHOLD == 50

SeqIssuePass(ir) ==
    IF ~(ir.status = "fulfilled" /\ ir.success) THEN InitialPass
    ELSE IF ~ir.dataOk THEN ThrownPass
    ELSE IF Len(ir.data) = 0 THEN InitialPass
    ELSE LET supplyChainIssues == supplyChainIssuesOf(ir.data)
         IN  IF Len(supplyChainIssues) > 0
             THEN LET sortedIssues == sortIssues(supplyChainIssues)
                      highestSeverity == sortedIssues[1].severity
                  IN  PassState(FALSE,
                                IF highestSeverity = "critical" \/ highestSeverity = "high"
                                THEN "fatal" ELSE "warn",
                                Description(SupplyChainText, messagesOf(sortedIssues), NoScore),
                                Undefined)
             ELSE PassState(FALSE, "warn",
                            Description(GenericText, issueTypesOf(ir.data), NoScore),
                            Undefined)

\* a variant whose fatal band includes the threshold itself
SeqScorePassInclusive(st, sr) ==
    IF st.threw THEN st
    ELSE IF ~(sr.status = "fulfilled" /\ sr.success) THEN st
    ELSE IF ~sr.hasScore THEN st
    ELSE LET riskScore == sr.score
         IN  IF riskScore <= SEQ_FATAL_RISK_THRESHOLD
             THEN IF st.riskLevel # "fatal"
                  THEN [st EXCEPT !.riskLevel = "fatal",
                                  !.description = Description(HighText, <<>>, <<riskScore>>)]
                  ELSE st
             ELSE IF riskScore < SEQ_WARN_RISK_THRESHOLD
             THEN IF st.riskLevel # "fatal"
                  THEN [st EXCEPT !.riskLevel = "warn",
                                  !.description =
                                      IF st.description = EmptyDescription
                                      THEN Description(ModerateText, <<>>, <<riskScore>>)
                                      ELSE st.description]
                  ELSE st
             ELSE st

SeqScorePass(st, sr) ==
    IF st.threw THEN st
    ELSE IF ~(sr.status = "fulfilled" /\ sr.success) THEN st
    ELSE IF ~sr.hasScore THEN st
    ELSE LET riskScore == sr.score
         IN  IF riskScore < SEQ_FATAL_RISK_THRESHOLD
             THEN IF st.riskLevel # "fatal"
                  THEN [st EXCEPT !.riskLevel = "fatal",
                                  !.description = Description(HighText, <<>>, <<riskScore>>)]
                  ELSE st
             ELSE IF riskScore < SEQ_WARN_RISK_THRESHOLD
             THEN IF st.riskLevel # "fatal"
                  THEN [st EXCEPT !.riskLevel = "warn",
                                  !.description =
                                      IF st.description = EmptyDescription
                                      THEN Description(ModerateText, <<>>, <<riskScore>>)
                                      ELSE st.description]
                  ELSE st
             ELSE st

\* lines 123-137: both branches of the url choice give the package overview
seqAdvisoryOf(pkg, st) ==
    IF st.riskLevel # "safe"
    THEN TaskValue(TRUE,
             Advisory(st.riskLevel, pkg.name,
                      IF st.description # EmptyDescription
                      THEN st.description
                      ELSE Description(FallbackText, <<<<pkg.name, pkg.version>>>>, NoScore),
                      PackageUrl(pkg)))
    ELSE NullValue

\* one iteration of the for loop (lines 40-142)
seqProcessPackage(pkg, ir, sr) ==
    LET afterIssues == SeqIssuePass(ir)
        st == SeqScorePass(afterIssues, sr)
    IN  [threw |-> st.threw,
         afterIssues |-> afterIssues,
         result |-> IF st.threw THEN NullValue ELSE seqAdvisoryOf(pkg, st)]


-----------------------------------------------------------------------------
(* Threshold overrides: scanner.ts lines 11-36 *)

\* an environment variable holding a number: unset, or its text as characters
EnvUnset == [set |-> FALSE, text |-> <<>>]
EnvText(text) == [set |-> TRUE, text |-> text]

DigitChars == <<"0", "1", "2", "3", "4", "5", "6", "7", "8", "9">>

isDigit(c) == indexOf(DigitChars, c) >= 0

\* number of blanks at the head of text[from..]
RECURSIVE blanksFrom(_, _)
blanksFrom(text, from) ==
    IF from > Len(text) \/ text[from] # " " THEN 0
    ELSE 1 + blanksFrom(text, from + 1)

\* number of digits at the head of text[from..]
RECURSIVE digitsFrom(_, _)
digitsFrom(text, from) ==
    IF from > Len(text) \/ ~isDigit(text[from]) THEN 0
    ELSE 1 + digitsFrom(text, from + 1)

\* value of the digit string text[from..from+n-1]
RECURSIVE digitsValue(_, _, _)
digitsValue(text, from, n) ==
    IF n = 0 THEN 0
    ELSE 10 * digitsValue(text, from, n - 1) + indexOf(DigitChars, text[from + n - 1])

ParsedNumber(isNaN, value) == [isNaN |-> isNaN, value |-> value]

\* Number.parseFloat on decimal literals without exponent, in hundredths:
\* leading blanks are skipped, an optional sign, digits, an optional fraction;
\* whatever follows is ignored, and text without any digit gives NaN.
\* Fraction digits beyond the second are dropped.
parseFloat(text) ==
    LET start == 1 + blanksFrom(text, 1)
        signed == start <= Len(text) /\ (text[start] = "-" \/ text[start] = "+")
        negative == signed /\ text[start] = "-"
        intFrom == IF signed THEN start + 1 ELSE start
        intLen == digitsFrom(text, intFrom)
        dot == intFrom + intLen
        hasDot == dot <= Len(text) /\ text[dot] = "."
        fracLen == IF hasDot THEN digitsFrom(text, dot + 1) ELSE 0
        tenths == IF fracLen >= 1 THEN indexOf(DigitChars, text[dot + 1]) ELSE 0
        hundredths == IF fracLen >= 2 THEN indexOf(DigitChars, text[dot + 2]) ELSE 0
        magnitude == 100 * digitsValue(text, intFrom, intLen) + 10 * tenths + hundredths
    IN  IF intLen + fracLen = 0 THEN ParsedNumber(TRUE, 0)
        ELSE ParsedNumber(FALSE, IF negative THEN 0 - magnitude ELSE magnitude)

\* getThreshold: the value it returns and whether it logged a warning
getThreshold(envValue, defaultValue) ==
    IF envValue.set /\ envValue.text # <<>>
    THEN LET parsed == parseFloat(envValue.text)
         IN  IF parsed.isNaN \/ parsed.value < 0 \/ parsed.value > 100
             THEN [value |-> defaultValue, warned |-> TRUE]
             ELSE [value |-> parsed.value, warned |-> FALSE]
    ELSE [value |-> defaultValue, warned |-> FALSE]

DEFAULT_FATAL_RISK_THRESHOLD == 30
DEFAULT_WARN_RISK_THRESHOLD == 50

LogEntry(text, about) == [text |-> text, about |-> about]

InvalidThresholdText == "Invalid value. Must be between 0 and 1. Using default"

\* warnings logged while scanner.ts is loaded (lines 29 and 36, in that order)
loadWarnings(e) ==
    (IF getThreshold(e.BUN_SOCKET_SCANNER_FATAL_THRESHOLD, DEFAULT_FATAL_RISK_THRESHOLD).warned
     THEN <<LogEntry(InvalidThresholdText, "BUN_SOCKET_SCANNER_FATAL_THRESHOLD")>>
     ELSE <<>>)
    \o
    (IF getThreshold(e.BUN_SOCKET_SCANNER_WARN_THRESHOLD, DEFAULT_WARN_RISK_THRESHOLD).warned
     THEN <<LogEntry(InvalidThresholdText, "BUN_SOCKET_SCANNER_WARN_THRESHOLD")>>
     ELSE <<>>)

-----------------------------------------------------------------------------
(* Credential lookup: secrets.ts lines 13-31, index.ts lines 13-15 *)

\* Bun.secrets: no entry (get resolves null), or a backend that throws
NoSecret == "<null>"
SecretsUnavailable == "<throws>"

\* a variant that never consults Bun.secrets
getApiKeyEnvOnly(e, store) ==
    LET envKey == e.NI_SOCKETDEV_TOKEN
    IN  IF envKey # Undefined /\ envKey # "" THEN envKey ELSE Undefined

getApiKey(e, store) ==
    LET envKey == e.NI_SOCKETDEV_TOKEN
    IN  IF envKey # Undefined /\ envKey # ""
        THEN envKey
        ELSE IF store = SecretsUnavailable THEN Undefined
             ELSE IF store = NoSecret THEN Undefined
             ELSE store

\* the sequential scanner reads the environment only
getSocketApiKey(e) == e.NI_SOCKETDEV_TOKEN

MissingKeyError ==
    "Socket.dev API key not found. Configure with: bun run src/index.ts set or set BUN_SOCKET_TOKEN environment variable"

SkipText == "NI_SOCKETDEV_TOKEN not found, skipping security scan"

ApiErrorText == "Socket.dev API error for "


-----------------------------------------------------------------------------
(* Promises of the two queries and of the per-package task *)

IssuesResult(status, success, dataOk, data) ==
    [status |-> status, success |-> success, dataOk |-> dataOk, data |-> data]

ScoreResult(status, success, hasScore, score) ==
    [status |-> status, success |-> success, hasScore |-> hasScore, score |-> score]

IssuesUnsent == IssuesResult("unsent", FALSE, FALSE, <<>>)
IssuesPending == IssuesResult("pending", FALSE, FALSE, <<>>)
IssuesRejected == IssuesResult("rejected", FALSE, FALSE, <<>>)
IssuesUnsuccessful == IssuesResult("fulfilled", FALSE, FALSE, <<>>)
\* success is true and data is not an array
IssuesBadData == IssuesResult("fulfilled", TRUE, FALSE, <<>>)
IssuesData(list) == IssuesResult("fulfilled", TRUE, TRUE, list)

ScoreUnsent == ScoreResult("unsent", FALSE, FALSE, 0)
ScorePending == ScoreResult("pending", FALSE, FALSE, 0)
ScoreRejected == ScoreResult("rejected", FALSE, FALSE, 0)
ScoreUnsuccessful == ScoreResult("fulfilled", FALSE, FALSE, 0)
\* success is true and data carries no supplyChainRisk.score
ScoreMissing == ScoreResult("fulfilled", TRUE, FALSE, 0)
ScoreData(score) == ScoreResult("fulfilled", TRUE, TRUE, score)

Settled(r) == r.status = "fulfilled" \/ r.status = "rejected"

PassRecord(done, st) == [done |-> done, st |-> st]

Outcome(kind, value, error) == [kind |-> kind, value |-> value, error |-> error]
OutcomePending == Outcome("pending", <<>>, "")

\* no SocketSdk client has been constructed
NoClient == "<no client>"

-----------------------------------------------------------------------------
(* Inputs of the model *)

SeqsUpTo(S, n) == UNION {[1..k -> S] : k \in 0..n}

Severities == {"critical", "high", "middle", "low", "bogus", Undefined}

SupplyChainSamples ==
    {Issue("malware", "supplyChainRisk", sev) : sev \in Severities}
    \cup {Issue(Undefined, "supplyChainRisk", "critical"),
          Issue("", "supplyChainRisk", "low"),
          Issue(Undefined, "supplyChainRisk", Undefined)}

OtherSamples ==
    {Issue("deprecation", Undefined, Undefined),
     Issue(Undefined, "quality", "critical")}

IssueSamples == SupplyChainSamples \cup OtherSamples

Scores == {10, 30, 40, 50, 60, 80, 90}

\* what the risk service may answer in a scan of a single package
DetailedIssuesResponses ==
    {IssuesRejected, IssuesUnsuccessful, IssuesBadData}
    \cup {IssuesData(list) : list \in SeqsUpTo(IssueSamples, MaxIssues)}

DetailedScoreResponses ==
    {ScoreRejected, ScoreUnsuccessful, ScoreMissing}
    \cup {ScoreData(score) : score \in Scores}

\* what it may answer for each package of a larger batch
BatchIssuesResponses ==
    {IssuesRejected, IssuesUnsuccessful, IssuesBadData, IssuesData(<<>>),
     IssuesData(<<Issue("malware", "supplyChainRisk", "critical")>>),
     IssuesData(<<Issue("deprecation", Undefined, Undefined)>>)}

BatchScoreResponses ==
    {ScoreRejected, ScoreUnsuccessful, ScoreData(10), ScoreData(90)}

PkgNames == <<"pkg-a", "pkg-b", "pkg-c", "pkg-d", "pkg-e">>

Package(i) == [name |-> PkgNames[i], version |-> "1.0.0"]

Batch(n) == [i \in 1..n |-> Package(i)]

TokenValues == {Undefined, "", "env-key"}

SecretValues == {NoSecret, SecretsUnavailable, "", "secret-key"}

ThresholdTexts ==
    {EnvUnset, EnvText(<<>>),
     EnvText(<<"0", ".", "1">>), EnvText(<<"0", ".", "8">>),
     EnvText(<<"i", "n", "v", "a", "l", "i", "d">>),
     EnvText(<<"2", ".", "0">>), EnvText(<<"-", "0", ".", "1">>),
     EnvText(<<"1">>), EnvText(<<"0">>),
     EnvText(<<"0", ".", "5", "x">>)}

\* the threshold overrides a single-package scan is classified under
ThresholdPairs ==
    {<<EnvUnset, EnvUnset>>,
     <<EnvText(<<"0", ".", "1">>), EnvText(<<"0", ".", "8">>)>>,
     <<EnvText(<<"0", ".", "8">>), EnvUnset>>}

Env(ni, bun, fatal, warn) ==
    [NI_SOCKETDEV_TOKEN |-> ni, BUN_SOCKET_TOKEN |-> bun,
     BUN_SOCKET_SCANNER_FATAL_THRESHOLD |-> fatal,
     BUN_SOCKET_SCANNER_WARN_THRESHOLD |-> warn]

\* the configuration the README describes: the key in the environment
KeyInEnv(e, store) ==
    /\ e.NI_SOCKETDEV_TOKEN = "env-key"
    /\ e.BUN_SOCKET_TOKEN = Undefined
    /\ store = NoSecret

\* the key is set in the environment and stored in Bun.secrets as well
KeyInBoth(e, store) ==
    /\ e.NI_SOCKETDEV_TOKEN = "env-key"
    /\ store = "secret-key"

\* the ways a query can end: it rejects, it brings a payload that makes the
\* task throw, it brings data
PlainIssuesResponses ==
    {IssuesRejected, IssuesBadData,
     IssuesData(<<Issue("malware", "supplyChainRisk", "critical")>>)}

PlainScoreResponses == {ScoreRejected, ScoreData(10)}

\* single-package scans are explored with the detailed answers, scans with the
\* key in both places with the plain ones
IssuesResponses ==
    IF Len(packages) = 1 /\ KeyInEnv(env, secretStore)
    THEN DetailedIssuesResponses
    ELSE IF KeyInBoth(env, secretStore)
    THEN PlainIssuesResponses
    ELSE BatchIssuesResponses

ScoreResponses ==
    IF Len(packages) = 1 /\ KeyInEnv(env, secretStore)
    THEN DetailedScoreResponses
    ELSE IF KeyInBoth(env, secretStore)
    THEN PlainScoreResponses
    ELSE BatchScoreResponses

-----------------------------------------------------------------------------
(* readPassword: src/src/index.ts lines 21-72 *)

\* the bytes a terminal sends for the keys the handler tells apart
ETX == 3
BS == 8
LF == 10
CR == 13
SPACE == 32
LetterA == 97
DEL == 127

\* Buffer.toString() of a chunk of ASCII bytes: one UTF-16 code unit per byte
fromCharCode(byte) == byte
toString(chunk) == [k \in 1..Len(chunk) |-> fromCharCode(chunk[k])]

\* a >= b on strings: code units compared from the left, a prefix is smaller
RECURSIVE stringGE(_, _)
stringGE(a, b) ==
    IF Len(b) = 0 THEN TRUE
    ELSE IF Len(a) = 0 THEN FALSE
    ELSE IF a[1] # b[1] THEN a[1] > b[1]
    ELSE stringGE(Tail(a), Tail(b))

\* input.slice(0, -1)
sliceLast(str) == SubSeq(str, 1, Len(str) - 1)

Stdin(isRaw, flowing, listeners, rawOffCalls, removeCalls) ==
    [isRaw |-> isRaw, flowing |-> flowing, listeners |-> listeners,
     rawOffCalls |-> rawOffCalls, removeCalls |-> removeCalls]

Promise(kind, value, settleCalls) ==
    [kind |-> kind, value |-> value, settleCalls |-> settleCalls]

PromptText == "Enter API key: "
NewlineText == "newline"
EraseText == "backspace space backspace"
MaskText == "*"
CancelledError == "User cancelled input"

\* readPassword has not been called
NotPrompting ==
    /\ input = <<>>
    /\ cleanupCalled = FALSE
    /\ stdin = Stdin(FALSE, FALSE, 0, 0, 0)
    /\ stdout = <<>>
    /\ password = Promise("uncalled", <<>>, 0)
    /\ received = <<>>

\* lines 29-36: stdin after cleanup()
cleanup(called, sin) ==
    IF called THEN sin
    ELSE [sin EXCEPT !.isRaw = FALSE, !.flowing = FALSE, !.rawOffCalls = @ + 1]

\* removeListener('data', onData)
removeListener(sin) ==
    IF sin.listeners > 0
    THEN [sin EXCEPT !.listeners = @ - 1, !.removeCalls = @ + 1]
    ELSE sin

\* resolve / reject: only the first call settles the promise
settle(promise, kind, value) ==
    IF promise.kind = "pending"
    THEN Promise(kind, value, promise.settleCalls + 1)
    ELSE [promise EXCEPT !.settleCalls = @ + 1]

-----------------------------------------------------------------------------
(* Initial states: the module is loaded and scan has not been called *)

Loaded(e, store, im, pkgs) ==
    /\ env = e
    /\ secretStore = store
    /\ impl = im
    /\ packages = pkgs
    /\ FATAL_RISK_THRESHOLD =
           getThreshold(e.BUN_SOCKET_SCANNER_FATAL_THRESHOLD, DEFAULT_FATAL_RISK_THRESHOLD).value
    /\ WARN_RISK_THRESHOLD =
           getThreshold(e.BUN_SOCKET_SCANNER_WARN_THRESHOLD, DEFAULT_WARN_RISK_THRESHOLD).value
    /\ log = IF im = "concurrent" THEN loadWarnings(e) ELSE <<>>
    /\ pc = "idle"
    /\ idx = 0
    /\ issuesResult = [i \in 1..Len(pkgs) |-> IssuesUnsent]
    /\ scoreResult = [i \in 1..Len(pkgs) |-> ScoreUnsent]
    /\ issued = [i \in 1..Len(pkgs) |-> [issues |-> 0, score |-> 0]]
    /\ issuePass = [i \in 1..Len(pkgs) |-> PassRecord(FALSE, InitialPass)]
    /\ taskResult = [i \in 1..Len(pkgs) |-> TaskUnstarted]
    /\ advisories = <<>>
    /\ outcome = OutcomePending
    /\ client = NoClient
    /\ NotPrompting

\* every credential configuration, scanning nothing or one package
InitCredentials ==
    \E ni \in TokenValues, bun \in TokenValues, store \in SecretValues,
       im \in {"concurrent", "sequential"}, n \in 0..1 :
        Loaded(Env(ni, bun, EnvUnset, EnvUnset), store, im, Batch(n))

\* every pair of threshold overrides, scanning nothing
InitThresholds ==
    \E fatal \in ThresholdTexts, warn \in ThresholdTexts :
        Loaded(Env("env-key", Undefined, fatal, warn), NoSecret, "concurrent", Batch(0))

\* one package under the chosen threshold overrides
InitDetailed ==
    \E pair \in ThresholdPairs :
        Loaded(Env("env-key", Undefined, pair[1], pair[2]), NoSecret, "concurrent", Batch(1))

\* batches under the default thresholds
InitBatch ==
    \E im \in {"concurrent", "sequential"}, n \in 0..MaxPkgs :
        Loaded(Env("env-key", Undefined, EnvUnset, EnvUnset), NoSecret, im, Batch(n))

\* a batch of two in the opposite order
InitReordered ==
    \E im \in {"concurrent", "sequential"} :
        Loaded(Env("env-key", Undefined, EnvUnset, EnvUnset), NoSecret, im,
               <<Package(2), Package(1)>>)

Init == InitCredentials \/ InitThresholds \/ InitDetailed \/ InitBatch \/ InitReordered


-----------------------------------------------------------------------------
(* scanner.scan of src/src/scanner.ts *)

Indices == 1..Len(packages)

\* a variant that lets the empty string through
keyMissingNullOnly(apiKey) == apiKey = Undefined

\* line 53: apiKey == null || apiKey === ''
keyMissing(apiKey) == apiKey = Undefined \/ apiKey = ""

\* a variant that sends the queries of the first package and awaits them
\* before it goes on to the next
ScanStartFirstOnly ==
    /\ pc = "idle"
    /\ impl = "concurrent"
    /\ LET apiKey == getApiKey(env, secretStore)
       IN  IF keyMissing(apiKey)
           THEN /\ pc' = "rejected"
                /\ outcome' = Outcome("rejected", <<>>, MissingKeyError)
                /\ UNCHANGED <<issuesResult, scoreResult, issued, taskResult, client>>
           ELSE /\ pc' = "awaitAll"
                /\ client' = apiKey
                /\ issuesResult' = [i \in Indices |->
                                      IF i = 1 THEN IssuesPending ELSE IssuesUnsent]
                /\ scoreResult' = [i \in Indices |->
                                     IF i = 1 THEN ScorePending ELSE ScoreUnsent]
                /\ issued' = [i \in Indices |->
                                IF i = 1
                                THEN [issues |-> issued[i].issues + 1,
                                      score |-> issued[i].score + 1]
                                ELSE issued[i]]
                /\ taskResult' = [i \in Indices |-> TaskPending]
                /\ UNCHANGED outcome
    /\ UNCHANGED pwVars
    /\ UNCHANGED <<env, secretStore, FATAL_RISK_THRESHOLD, WARN_RISK_THRESHOLD, impl,
                   packages, idx, issuePass, advisories, log>>

\* lines 50-66: the credential check, then packages.map starts every task, and
\* each task sends its two queries before its first await
ScanStart ==
    /\ pc = "idle"
    /\ impl = "concurrent"
    /\ LET apiKey == getApiKey(env, secretStore)
       IN  IF keyMissing(apiKey)
           THEN /\ pc' = "rejected"
                /\ outcome' = Outcome("rejected", <<>>, MissingKeyError)
                /\ UNCHANGED <<issuesResult, scoreResult, issued, taskResult, client>>
           ELSE /\ pc' = "awaitAll"
                /\ client' = apiKey
                /\ issuesResult' = [i \in Indices |-> IssuesPending]
                /\ scoreResult' = [i \in Indices |-> ScorePending]
                /\ issued' = [i \in Indices |->
                                [issues |-> issued[i].issues + 1,
                                 score |-> issued[i].score + 1]]
                /\ taskResult' = [i \in Indices |-> TaskPending]
                /\ UNCHANGED outcome
    /\ UNCHANGED pwVars
    /\ UNCHANGED <<env, secretStore, FATAL_RISK_THRESHOLD, WARN_RISK_THRESHOLD, impl,
                   packages, idx, issuePass, advisories, log>>

\* a variant that sends a failed issue query once more
SettleIssuesRetry(i) ==
    /\ issuesResult[i].status = "pending"
    /\ \E r \in IssuesResponses :
          IF r.status = "rejected" /\ issued[i].issues < 2
          THEN /\ issuesResult' = [issuesResult EXCEPT ![i] = IssuesPending]
               /\ issued' = [issued EXCEPT ![i].issues = @ + 1]
          ELSE /\ issuesResult' = [issuesResult EXCEPT ![i] = r]
               /\ UNCHANGED issued
    /\ UNCHANGED pwVars
    /\ UNCHANGED <<client, env, secretStore, FATAL_RISK_THRESHOLD, WARN_RISK_THRESHOLD,
                   impl, packages, pc, idx, scoreResult, issuePass, taskResult,
                   advisories, outcome, log>>

\* the risk service settles the issue query of package i
SettleIssues(i) ==
    /\ issuesResult[i].status = "pending"
    /\ \E r \in IssuesResponses : issuesResult' = [issuesResult EXCEPT ![i] = r]
    /\ UNCHANGED pwVars
    /\ UNCHANGED <<client, env, secretStore, FATAL_RISK_THRESHOLD, WARN_RISK_THRESHOLD, impl,
                   packages, pc, idx, scoreResult, issued, issuePass, taskResult,
                   advisories, outcome, log>>

\* the risk service settles the score query of package i
SettleScore(i) ==
    /\ scoreResult[i].status = "pending"
    /\ \E r \in ScoreResponses : scoreResult' = [scoreResult EXCEPT ![i] = r]
    /\ UNCHANGED pwVars
    /\ UNCHANGED <<client, env, secretStore, FATAL_RISK_THRESHOLD, WARN_RISK_THRESHOLD, impl,
                   packages, pc, idx, issuesResult, issued, issuePass, taskResult,
                   advisories, outcome, log>>

\* a variant in which each task pushes its advisory as soon as it is done
ProcessPackagePushes(i) ==
    /\ pc = "awaitAll"
    /\ taskResult[i].status = "pending"
    /\ Settled(issuesResult[i])
    /\ Settled(scoreResult[i])
    /\ LET done == processPackage(packages[i], issuesResult[i], scoreResult[i],
                                  FATAL_RISK_THRESHOLD, WARN_RISK_THRESHOLD)
       IN  /\ taskResult' = [taskResult EXCEPT ![i] = Task("fulfilled", NullValue)]
           /\ advisories' = IF done.task.value.hasValue
                            THEN Append(advisories, done.task.value.value)
                            ELSE advisories
           /\ issuePass' = [issuePass EXCEPT ![i] = PassRecord(TRUE, done.afterIssues)]
           /\ log' = IF done.threw
                     THEN Append(log, LogEntry(ApiErrorText, packages[i].name))
                     ELSE log
    /\ UNCHANGED pwVars
    /\ UNCHANGED <<client, env, secretStore, FATAL_RISK_THRESHOLD, WARN_RISK_THRESHOLD,
                   impl, packages, pc, idx, issuesResult, scoreResult, issued, outcome>>

\* lines 63-169: the inner Promise.allSettled has resolved and the task of
\* package i runs to its end
ProcessPackage(i) ==
    /\ pc = "awaitAll"
    /\ taskResult[i].status = "pending"
    /\ Settled(issuesResult[i])
    /\ Settled(scoreResult[i])
    /\ LET done == processPackage(packages[i], issuesResult[i], scoreResult[i],
                                  FATAL_RISK_THRESHOLD, WARN_RISK_THRESHOLD)
       IN  /\ taskResult' = [taskResult EXCEPT ![i] = done.task]
           /\ issuePass' = [issuePass EXCEPT ![i] = PassRecord(TRUE, done.afterIssues)]
           /\ log' = IF done.threw
                     THEN Append(log, LogEntry(ApiErrorText, packages[i].name))
                     ELSE log
    /\ UNCHANGED pwVars
    /\ UNCHANGED <<client, env, secretStore, FATAL_RISK_THRESHOLD, WARN_RISK_THRESHOLD, impl,
                   packages, pc, idx, issuesResult, scoreResult, issued, advisories,
                   outcome>>

\* a variant in which one task without advisory empties the whole list
collectResultsAllOrNothing(scanResults, n) ==
    IF \E k \in 1..n : ~scanResults[k].value.hasValue
    THEN <<>>
    ELSE [k \in 1..n |-> scanResults[k].value.value]

\* lines 172-177: the fulfilled, non-null task values in task order
RECURSIVE collectResults(_, _)
collectResults(scanResults, n) ==
    IF n = 0 THEN <<>>
    ELSE LET rest == collectResults(scanResults, n - 1)
         IN  IF scanResults[n].status = "fulfilled" /\ scanResults[n].value.hasValue
             THEN Append(rest, scanResults[n].value.value)
             ELSE rest

\* a variant that collects as soon as one task is done
CollectEarly ==
    /\ pc = "awaitAll"
    /\ \E i \in Indices : taskResult[i].status = "fulfilled"
    /\ advisories' = collectResults(taskResult, Len(packages))
    /\ outcome' = Outcome("resolved", advisories', "")
    /\ pc' = "returned"
    /\ UNCHANGED pwVars
    /\ UNCHANGED <<client, env, secretStore, FATAL_RISK_THRESHOLD, WARN_RISK_THRESHOLD,
                   impl, packages, idx, issuesResult, scoreResult, issued, issuePass,
                   taskResult, log>>

\* lines 60 and 172-179: the outer Promise.allSettled has resolved
Collect ==
    /\ pc = "awaitAll"
    /\ \A i \in Indices : taskResult[i].status = "fulfilled"
    /\ advisories' = collectResults(taskResult, Len(packages))
    /\ outcome' = Outcome("resolved", advisories', "")
    /\ pc' = "returned"
    /\ UNCHANGED pwVars
    /\ UNCHANGED <<client, env, secretStore, FATAL_RISK_THRESHOLD, WARN_RISK_THRESHOLD, impl,
                   packages, idx, issuesResult, scoreResult, issued, issuePass,
                   taskResult, log>>

-----------------------------------------------------------------------------
(* scanner.scan of src/index.ts *)

\* a variant that lets the empty string through
seqKeyMissingUndefinedOnly(apiKey) == apiKey = Undefined

\* line 31: apiKey === undefined || apiKey === ''
seqKeyMissing(apiKey) == apiKey = Undefined \/ apiKey = ""

\* queries of package i are sent when the loop reaches it (lines 42-45)
sendQueries(results, pending, i) == [results EXCEPT ![i] = pending]

\* lines 29-45: the credential check and the entry into the loop
SeqScanStart ==
    /\ pc = "idle"
    /\ impl = "sequential"
    /\ LET apiKey == getSocketApiKey(env)
       IN  IF seqKeyMissing(apiKey)
           THEN /\ log' = Append(log, LogEntry(SkipText, ""))
                /\ outcome' = Outcome("resolved", <<>>, "")
                /\ pc' = "returned"
                /\ UNCHANGED <<idx, issuesResult, scoreResult, issued, client>>
           ELSE IF Len(packages) = 0
           THEN /\ client' = apiKey
                /\ outcome' = Outcome("resolved", advisories, "")
                /\ pc' = "returned"
                /\ UNCHANGED <<idx, issuesResult, scoreResult, issued, log>>
           ELSE /\ pc' = "loop"
                /\ client' = apiKey
                /\ idx' = 1
                /\ issuesResult' = sendQueries(issuesResult, IssuesPending, 1)
                /\ scoreResult' = sendQueries(scoreResult, ScorePending, 1)
                /\ issued' = [issued EXCEPT ![1] = [issues |-> @.issues + 1,
                                                     score |-> @.score + 1]]
                /\ UNCHANGED <<outcome, log>>
    /\ UNCHANGED pwVars
    /\ UNCHANGED <<env, secretStore, FATAL_RISK_THRESHOLD, WARN_RISK_THRESHOLD, impl,
                   packages, issuePass, taskResult, advisories>>

\* lines 46-145: the rest of one loop iteration, then the next iteration's
\* queries or the return
SeqIterate ==
    /\ pc = "loop"
    /\ Settled(issuesResult[idx])
    /\ Settled(scoreResult[idx])
    /\ LET done == seqProcessPackage(packages[idx], issuesResult[idx], scoreResult[idx])
       IN  /\ advisories' = IF done.result.hasValue
                            THEN Append(advisories, done.result.value)
                            ELSE advisories
           /\ issuePass' = [issuePass EXCEPT ![idx] = PassRecord(TRUE, done.afterIssues)]
           /\ taskResult' = [taskResult EXCEPT ![idx] = Task("fulfilled", done.result)]
           /\ log' = IF done.threw
                     THEN Append(log, LogEntry(ApiErrorText, packages[idx].name))
                     ELSE log
    /\ IF idx = Len(packages)
       THEN /\ outcome' = Outcome("resolved", advisories', "")
            /\ pc' = "returned"
            /\ UNCHANGED <<idx, issuesResult, scoreResult, issued>>
       ELSE /\ idx' = idx + 1
            /\ issuesResult' = sendQueries(issuesResult, IssuesPending, idx + 1)
            /\ scoreResult' = sendQueries(scoreResult, ScorePending, idx + 1)
            /\ issued' = [issued EXCEPT ![idx + 1] = [issues |-> @.issues + 1,
                                                       score |-> @.score + 1]]
            /\ UNCHANGED <<outcome, pc>>
    /\ UNCHANGED pwVars
    /\ UNCHANGED <<client, env, secretStore, FATAL_RISK_THRESHOLD, WARN_RISK_THRESHOLD, impl,
                   packages>>

-----------------------------------------------------------------------------

Next ==
    \/ ScanStart
    \/ \E i \in Indices : SettleIssues(i)
    \/ \E i \in Indices : SettleScore(i)
    \/ \E i \in Indices : ProcessPackage(i)
    \/ Collect
    \/ SeqScanStart
    \/ SeqIterate

Spec == Init /\ [][Next]_vars

\* Scheduling: the event loop runs every continuation that is ready (the task
\* of a package whose two queries have settled, the collection once all tasks
\* are done, the next loop iteration), and every query sent is answered or
\* fails in the end. No step of the scan disables another one, so it is enough
\* that the scan never stands still while a step is possible.
Fairness ==
    WF_vars(Next)

\* batches scanned with the key in both places
LiveInit ==
    \E im \in {"concurrent", "sequential"}, n \in 0..MaxPkgs :
        Loaded(Env("env-key", Undefined, EnvUnset, EnvUnset), "secret-key", im, Batch(n))

LiveSpec == LiveInit /\ [][Next]_vars /\ Fairness

-----------------------------------------------------------------------------
(* readPassword of src/src/index.ts: the call and its data handler *)

Bytes == {ETX, BS, LF, CR, SPACE, LetterA, DEL}

\* a key press arrives as one byte, pasted text as several in one chunk
Chunks == UNION {[1..n -> Bytes] : n \in 1..MaxChunkLen}

\* lines 22-27 and 70: the prompt, raw mode, the listener
ReadPassword ==
    /\ password.kind = "uncalled"
    /\ stdout' = Append(stdout, PromptText)
    /\ stdin' = [stdin EXCEPT !.isRaw = TRUE, !.flowing = TRUE, !.listeners = @ + 1]
    /\ input' = <<>>
    /\ cleanupCalled' = FALSE
    /\ password' = Promise("pending", <<>>, 0)
    /\ UNCHANGED received
    /\ UNCHANGED scanVars

\* lines 39-68: the handler of one data event
OnData(chunk) ==
    /\ stdin.listeners > 0
    /\ stdin.flowing
    /\ Len(received) < MaxChunks
    /\ received' = Append(received, chunk)
    /\ LET char == toString(chunk)
       IN  IF char = <<CR>> \/ char = <<LF>>
           THEN /\ stdin' = removeListener(cleanup(cleanupCalled, stdin))
                /\ cleanupCalled' = TRUE
                /\ stdout' = Append(stdout, NewlineText)
                /\ password' = settle(password, "resolved", input)
                /\ UNCHANGED input
           ELSE IF char = <<ETX>>
           THEN /\ stdin' = removeListener(cleanup(cleanupCalled, stdin))
                /\ cleanupCalled' = TRUE
                /\ stdout' = Append(stdout, NewlineText)
                /\ password' = settle(password, "rejected", CancelledError)
                /\ UNCHANGED input
           ELSE IF char = <<DEL>> \/ char = <<BS>>
           THEN /\ IF Len(input) > 0
                   THEN /\ input' = sliceLast(input)
                        /\ stdout' = Append(stdout, EraseText)
                   ELSE UNCHANGED <<input, stdout>>
                /\ UNCHANGED <<stdin, cleanupCalled, password>>
           ELSE IF stringGE(char, <<SPACE>>)
           THEN /\ input' = input \o char
                /\ stdout' = Append(stdout, MaskText)
                /\ UNCHANGED <<stdin, cleanupCalled, password>>
           ELSE UNCHANGED <<input, stdout, stdin, cleanupCalled, password>>
    /\ UNCHANGED scanVars

PwInit ==
    Loaded(Env("env-key", Undefined, EnvUnset, EnvUnset), NoSecret, "concurrent", Batch(0))

PwNext ==
    \/ ReadPassword
    \/ \E chunk \in Chunks : OnData(chunk)

PwSpec == PwInit /\ [][PwNext]_vars

-----------------------------------------------------------------------------
(* Vocabulary of the properties *)

\* the thresholds the running scanner compares scores with
FatalInForce ==
    IF impl = "concurrent" THEN FATAL_RISK_THRESHOLD ELSE SEQ_FATAL_RISK_THRESHOLD

WarnInForce ==
    IF impl = "concurrent" THEN WARN_RISK_THRESHOLD ELSE SEQ_WARN_RISK_THRESHOLD

\* the issue query of package i succeeded with a list of issues
IssuesRetrieved(i) ==
    /\ issuesResult[i].status = "fulfilled"
    /\ issuesResult[i].success
    /\ issuesResult[i].dataOk

\* the issue query of package i failed: rejected, or success false
IssuesFailed(i) ==
    \/ issuesResult[i].status = "rejected"
    \/ issuesResult[i].status = "fulfilled" /\ ~issuesResult[i].success

\* the score query of package i failed: rejected, or success false
ScoreFailed(i) ==
    \/ scoreResult[i].status = "rejected"
    \/ scoreResult[i].status = "fulfilled" /\ ~scoreResult[i].success

\* the score query of package i succeeded and carries a score
ScorePresent(i) ==
    /\ scoreResult[i].status = "fulfilled"
    /\ scoreResult[i].success
    /\ scoreResult[i].hasScore

\* the returned list holds an advisory for package i / one of the given level
Listed(i) ==
    \E k \in 1..Len(outcome.value) : outcome.value[k].package = packages[i].name

ListedAs(i, level) ==
    \E k \in 1..Len(outcome.value) :
        /\ outcome.value[k].package = packages[i].name
        /\ outcome.value[k].level = level

ListedWith(i, level, description) ==
    \E k \in 1..Len(outcome.value) :
        /\ outcome.value[k].package = packages[i].name
        /\ outcome.value[k].level = level
        /\ outcome.value[k].description = description

\* no key anywhere: no credential variable set, nothing in the secret store
NoKeyConfigured ==
    /\ env.NI_SOCKETDEV_TOKEN \in {Undefined, ""}
    /\ env.BUN_SOCKET_TOKEN \in {Undefined, ""}
    /\ secretStore \in {NoSecret, SecretsUnavailable, ""}

NoQueryIssued ==
    \A i \in Indices :
        /\ issued[i].issues = 0
        /\ issued[i].score = 0
        /\ issuesResult[i].status = "unsent"
        /\ scoreResult[i].status = "unsent"

CriticalOrHighSupplyChain(i) ==
    /\ IssuesRetrieved(i)
    /\ \E k \in 1..Len(issuesResult[i].data) :
           /\ issuesResult[i].data[k].category = "supplyChainRisk"
           /\ issuesResult[i].data[k].severity \in {"critical", "high"}

-----------------------------------------------------------------------------
(* C1 .. C10 *)

\* C1: every package whose retrieved issue list holds a supplyChainRisk issue
\* of severity critical or high is reported with level fatal, whatever its
\* score and whatever else is in the list.
C1_CriticalOrHighIsFatal ==
    (pc = "returned" /\ impl = "concurrent") =>
        \A i \in Indices : CriticalOrHighSupplyChain(i) => ListedAs(i, "fatal")

C3_BunSocketTokenAccepted ==
    (/\ impl = "concurrent"
     /\ pc # "idle"
     /\ env.BUN_SOCKET_TOKEN = "env-key"
     /\ env.NI_SOCKETDEV_TOKEN = Undefined
     /\ secretStore = NoSecret
     /\ packages = <<>>) =>
        /\ pc # "rejected"
        /\ pc = "returned" => outcome = Outcome("resolved", <<>>, "")

SkippedScan ==
    /\ pc = "returned"
    /\ outcome = Outcome("resolved", <<>>, "")
    /\ \E k \in 1..Len(log) : log[k].text = SkipText
    /\ NoQueryIssued

C5_NoIssuesHighScoreIsSafe ==
    (pc = "returned" /\ impl = "concurrent") =>
        \A i \in Indices :
            (/\ IssuesFailed(i) \/ (IssuesRetrieved(i) /\ issuesResult[i].data = <<>>)
             /\ ScoreFailed(i) \/ ~ScorePresent(i) \/ scoreResult[i].score >= WarnInForce)
            => (~Listed(i) /\ ~taskResult[i].value.hasValue)

\* a key that getApiKey can find: in the environment, or else in the store
CredentialResolvable ==
    \/ env.NI_SOCKETDEV_TOKEN \notin {Undefined, ""}
    \/ secretStore \notin {NoSecret, SecretsUnavailable, ""}

\* C6: a package whose two queries both fail yields no advisory, the scan
\* still resolves, and the other packages of the batch are still classified
\* and reported.
C6_BothQueriesFail ==
    /\ (\E i \in Indices : issued[i].issues > 0) => pc # "rejected"
    /\ (pc = "returned" /\ \E i \in Indices : issued[i].issues > 0) =>
          /\ outcome.kind = "resolved"
          /\ \A i \in Indices :
                (IssuesFailed(i) /\ ScoreFailed(i)) =>
                    /\ ~Listed(i)
                    /\ \A j \in Indices \ {i} :
                          /\ CriticalOrHighSupplyChain(j) => ListedAs(j, "fatal")
                          /\ (IssuesRetrieved(j) /\ issuesResult[j].data # <<>>) => Listed(j)
                          /\ (~issuePass[j].st.threw /\ ScorePresent(j)
                                 /\ scoreResult[j].score < FatalInForce)
                                => ListedAs(j, "fatal")

C6_Witness ==
    /\ pc = "returned"
    /\ impl = "concurrent"
    /\ Len(packages) = 2
    /\ issuesResult[1].status = "rejected"
    /\ scoreResult[1] = ScoreUnsuccessful
    /\ CriticalOrHighSupplyChain(2)
    /\ Len(outcome.value) = 1
    /\ outcome.value[1].package = packages[2].name

\* C7: with a resolvable credential the concurrent scan never rejects and
\* returns an advisory list for every combination of query outcomes; a
\* package whose processing throws contributes no advisory.
C7_NeverRejects ==
    (impl = "concurrent" /\ CredentialResolvable) =>
        /\ pc # "rejected"
        /\ outcome.kind # "rejected"
        /\ pc = "returned" => outcome.kind = "resolved"
        /\ \A i \in Indices : taskResult[i].status # "rejected"
        /\ \A i \in Indices :
              (pc = "returned" /\ issuesResult[i] = IssuesBadData) => ~Listed(i)

C7_Witness ==
    /\ impl = "concurrent"
    /\ pc = "returned"
    /\ env.NI_SOCKETDEV_TOKEN = Undefined
    /\ secretStore = "secret-key"
    /\ Len(packages) = 1
    /\ issuesResult[1] = IssuesBadData
    /\ scoreResult[1] = ScoreData(10)
    /\ outcome = Outcome("resolved", <<>>, "")

\* C8: a score present and strictly below fatalThreshold turns every
\* non-fatal result of the issue pass (safe, generic warn, supply-chain warn)
\* into fatal with exactly the description 'High supply chain risk (score: s)'.
C8_LowScoreEscalates ==
    \A i \in Indices :
        (/\ issuePass[i].done
         /\ ~issuePass[i].st.threw
         /\ issuePass[i].st.riskLevel # "fatal"
         /\ ScorePresent(i)
         /\ scoreResult[i].score < FatalInForce) =>
            /\ taskResult[i].value.hasValue
            /\ taskResult[i].value.value.level = "fatal"
            /\ taskResult[i].value.value.description =
                   Description(HighText, <<>>, <<scoreResult[i].score>>)
            /\ pc = "returned" =>
                   ListedWith(i, "fatal", Description(HighText, <<>>, <<scoreResult[i].score>>))

C8_Witness ==
    /\ pc = "returned"
    /\ impl = "concurrent"
    /\ Len(packages) = 1
    /\ issuePass[1].done
    /\ issuePass[1].st.riskLevel = "warn"
    /\ issuePass[1].st.description.kind = SupplyChainText
    /\ ScorePresent(1)
    /\ scoreResult[1].score < FATAL_RISK_THRESHOLD
    /\ ListedAs(1, "fatal")

\* C9: once the issue pass has set fatal, the score pass changes neither the
\* level nor the 'Supply chain risks found: ...' description, for any score.
C9_IssueFatalIsKept ==
    \A i \in Indices :
        (issuePass[i].done /\ issuePass[i].st.riskLevel = "fatal") =>
            /\ issuePass[i].st.description.kind = SupplyChainText
            /\ taskResult[i].value.hasValue
            /\ taskResult[i].value.value.level = "fatal"
            /\ taskResult[i].value.value.description = issuePass[i].st.description
            /\ pc = "returned" => ListedWith(i, "fatal", issuePass[i].st.description)

C9_Witness ==
    /\ pc = "returned"
    /\ impl = "concurrent"
    /\ Len(packages) = 1
    /\ issuePass[1].done
    /\ issuePass[1].st.riskLevel = "fatal"
    /\ ScorePresent(1)
    /\ scoreResult[1].score < FATAL_RISK_THRESHOLD
    /\ ListedWith(1, "fatal", issuePass[1].st.description)

\* C10: for fatalThreshold <= s < warnThreshold, a package with no issues is
\* reported warn with 'Moderate supply chain risk (score: s)', and a package
\* whose issue pass gave warn stays warn with its issue description.
C10_ModerateBand ==
    \A i \in Indices :
        (/\ issuePass[i].done
         /\ ~issuePass[i].st.threw
         /\ ScorePresent(i)
         /\ FatalInForce <= scoreResult[i].score
         /\ scoreResult[i].score < WarnInForce) =>
            /\ (IssuesFailed(i) \/ (IssuesRetrieved(i) /\ issuesResult[i].data = <<>>)) =>
                  /\ taskResult[i].value.hasValue
                  /\ taskResult[i].value.value.level = "warn"
                  /\ taskResult[i].value.value.description =
                         Description(ModerateText, <<>>, <<scoreResult[i].score>>)
            /\ (issuePass[i].st.riskLevel = "warn") =>
                  /\ taskResult[i].value.hasValue
                  /\ taskResult[i].value.value.level = "warn"
                  /\ taskResult[i].value.value.description = issuePass[i].st.description
                  /\ issuePass[i].st.description.kind \in {SupplyChainText, GenericText}

C10_Witness ==
    /\ pc = "returned"
    /\ impl = "concurrent"
    /\ Len(packages) = 1
    /\ issuePass[1].done
    /\ issuePass[1].st.riskLevel = "warn"
    /\ ScorePresent(1)
    /\ scoreResult[1].score = FATAL_RISK_THRESHOLD
    /\ scoreResult[1].score < WARN_RISK_THRESHOLD
    /\ ListedWith(1, "warn", issuePass[1].st.description)

-----------------------------------------------------------------------------
(* C11 .. C20 *)

\* safe < warn < fatal
levelRank(level) ==
    CASE level = "safe" -> 0
      [] level = "warn" -> 1
      [] level = "fatal" -> 2

\* the level a task value stands for: no advisory is safe
levelOfValue(v) == IF v.hasValue THEN v.value.level ELSE "safe"

\* what the scanner in force computes for package i from the answers ir, sr
valueWith(i, ir, sr) ==
    IF impl = "concurrent"
    THEN processPackage(packages[i], ir, sr,
                        FATAL_RISK_THRESHOLD, WARN_RISK_THRESHOLD).task.value
    ELSE seqProcessPackage(packages[i], ir, sr).result

\* C11: with the issue answer and the thresholds held fixed, a lower present
\* score never gives a lower level and a higher one never a higher level, on
\* the scale safe < warn < fatal.
C11_ScoreMonotone ==
    \A i \in Indices :
        (taskResult[i].status = "fulfilled" /\ ScorePresent(i)) =>
            \A s \in Scores :
                LET other == levelRank(levelOfValue(
                                 valueWith(i, issuesResult[i], ScoreData(s))))
                    actual == levelRank(levelOfValue(taskResult[i].value))
                IN  /\ s <= scoreResult[i].score => other >= actual
                    /\ s >= scoreResult[i].score => other <= actual

C11_Witness ==
    /\ pc = "returned"
    /\ impl = "concurrent"
    /\ Len(packages) = 1
    /\ issuesResult[1] = IssuesData(<<>>)
    /\ scoreResult[1] = ScoreData(40)
    /\ FATAL_RISK_THRESHOLD <= 40
    /\ 40 < WARN_RISK_THRESHOLD
    /\ ListedAs(1, "warn")
    /\ levelOfValue(valueWith(1, issuesResult[1], ScoreData(10))) = "fatal"
    /\ levelOfValue(valueWith(1, issuesResult[1], ScoreData(90))) = "safe"

\* C12: whatever the two threshold overrides hold, the pair the scanner
\* classifies with satisfies 0 <= fatalThreshold < warnThreshold <= 1.
C12_ThresholdsOrdered ==
    pc # "idle" =>
        /\ 0 <= FatalInForce
        /\ FatalInForce < WarnInForce
        /\ WarnInForce <= 100

\* the whole text is a decimal number: blanks, an optional sign, digits with
\* an optional fraction, and nothing behind them
isNumericText(text) ==
    LET start == 1 + blanksFrom(text, 1)
        signed == start <= Len(text) /\ (text[start] = "-" \/ text[start] = "+")
        intFrom == IF signed THEN start + 1 ELSE start
        intLen == digitsFrom(text, intFrom)
        dot == intFrom + intLen
        hasDot == dot <= Len(text) /\ text[dot] = "."
        fracLen == IF hasDot THEN digitsFrom(text, dot + 1) ELSE 0
        end == IF hasDot THEN dot + 1 + fracLen ELSE dot
    IN  intLen + fracLen > 0 /\ end > Len(text)

\* number of 'Invalid <name>' warnings in the log
invalidWarnings(name) ==
    Cardinality({k \in 1..Len(log) :
                    log[k].text = InvalidThresholdText /\ log[k].about = name})

\* what C13 asks of one override: its text, the threshold in force, the default
resolvedAsClaimed(envValue, name, inForce, defaultValue) ==
    IF ~envValue.set \/ envValue.text = <<>>
    THEN inForce = defaultValue /\ invalidWarnings(name) = 0
    ELSE IF /\ isNumericText(envValue.text)
            /\ parseFloat(envValue.text).value >= 0
            /\ parseFloat(envValue.text).value <= 100
    THEN inForce = parseFloat(envValue.text).value /\ invalidWarnings(name) = 0
    ELSE inForce = defaultValue /\ invalidWarnings(name) = 1

\* C13: an override that is not a number or lies outside [0,1] is rejected:
\* the default is in force and one 'Invalid <name>' warning is logged; an
\* override inside [0,1] is in force as given, without warning; an unset or
\* empty override gives the default without warning; the scan is not made to
\* fail by any of them.
C13_ThresholdResolution ==
    (impl = "concurrent" /\ pc # "idle") =>
        /\ resolvedAsClaimed(env.BUN_SOCKET_SCANNER_FATAL_THRESHOLD,
                             "BUN_SOCKET_SCANNER_FATAL_THRESHOLD",
                             FATAL_RISK_THRESHOLD, DEFAULT_FATAL_RISK_THRESHOLD)
        /\ resolvedAsClaimed(env.BUN_SOCKET_SCANNER_WARN_THRESHOLD,
                             "BUN_SOCKET_SCANNER_WARN_THRESHOLD",
                             WARN_RISK_THRESHOLD, DEFAULT_WARN_RISK_THRESHOLD)
        /\ CredentialResolvable => pc # "rejected"

\* C14: every returned list holds only advisories of level fatal or warn,
\* each naming an input package; no input package has more than one, so the
\* list is never longer than the package list.
C14_ListIsBounded ==
    pc = "returned" =>
        /\ \A k \in 1..Len(outcome.value) :
              /\ outcome.value[k].level \in {"fatal", "warn"}
              /\ \E i \in Indices : outcome.value[k].package = packages[i].name
        /\ \A i \in Indices :
              Cardinality({k \in 1..Len(outcome.value) :
                              outcome.value[k].package = packages[i].name}) <= 1
        /\ Len(outcome.value) <= Len(packages)
        /\ advisories = outcome.value

C14_Witness ==
    /\ pc = "returned"
    /\ impl = "concurrent"
    /\ Len(packages) = 2
    /\ Len(outcome.value) = 2
    /\ ListedAs(1, "fatal")
    /\ ListedAs(2, "warn")

\* C15: what is reported for a package is determined by its own name and
\* version and its own two answers: whatever the other packages of the batch
\* are, wherever they stand and however their queries end, the list holds for
\* it exactly the advisory computed from its own answers, or none.
C15_Independent ==
    \A i \in Indices :
        taskResult[i].status = "fulfilled" =>
            LET own == valueWith(i, issuesResult[i], scoreResult[i])
            IN  /\ taskResult[i].value = own
                /\ pc = "returned" =>
                      /\ own.hasValue =>
                            \E k \in 1..Len(outcome.value) : outcome.value[k] = own.value
                      /\ ~own.hasValue => ~Listed(i)

C15_Witness ==
    /\ pc = "returned"
    /\ impl = "concurrent"
    /\ packages = <<Package(2), Package(1)>>
    /\ issuesResult[1] = IssuesBadData
    /\ scoreResult[1] = ScoreData(10)
    /\ CriticalOrHighSupplyChain(2)
    /\ scoreResult[2] = ScoreRejected
    /\ Len(outcome.value) = 1
    /\ outcome.value[1] = valueWith(2, issuesResult[2], scoreResult[2]).value
    /\ outcome.value[1].level = "fatal"

\* the environment override of the credential: the variable the README, the
\* error message and the tests name, or else the one secrets.ts names
envOverride ==
    IF env.BUN_SOCKET_TOKEN \notin {Undefined, ""}
    THEN env.BUN_SOCKET_TOKEN
    ELSE env.NI_SOCKETDEV_TOKEN

\* the key the resolution order of C16 yields; Undefined when there is none
keyAsClaimed ==
    IF envOverride \notin {Undefined, ""} THEN envOverride
    ELSE IF secretStore \in {NoSecret, SecretsUnavailable, ""} THEN Undefined
    ELSE secretStore

\* C16: the scan runs with the environment override whenever that is set and
\* non-empty, whatever the secret store holds; with the override unset or
\* empty it runs with the secret-store value; and a store that has no entry,
\* holds the empty string or throws makes the scan treat the key as absent.
C16_ResolutionOrder ==
    (impl = "concurrent" /\ pc # "idle") =>
        IF keyAsClaimed = Undefined
        THEN /\ pc = "rejected"
             /\ outcome.error = MissingKeyError
             /\ client = NoClient
        ELSE /\ pc # "rejected"
             /\ client = keyAsClaimed

\* the retrieved issue list of package i holds a critical supplyChainRisk issue
CriticalSupplyChain(i) ==
    /\ IssuesRetrieved(i)
    /\ \E k \in 1..Len(issuesResult[i].data) :
           /\ issuesResult[i].data[k].category = "supplyChainRisk"
           /\ issuesResult[i].data[k].severity = "critical"

\* C17: when exactly one of the two queries of a package fails, the package is
\* classified from the other answer as if the failed one had brought nothing:
\* a failed issue query leaves the result of an empty issue list, a failed
\* score query that of a missing score; in particular a score below
\* fatalThreshold still gives fatal when the issue query failed, and a critical
\* supply-chain issue still gives fatal when the score query failed.
C17_QueryFailIsolation ==
    \A i \in Indices :
        taskResult[i].status = "fulfilled" =>
            /\ (IssuesFailed(i) /\ ~ScoreFailed(i)) =>
                  /\ taskResult[i].value =
                         valueWith(i, IssuesData(<<>>), scoreResult[i])
                  /\ (ScorePresent(i) /\ scoreResult[i].score < FatalInForce) =>
                         levelOfValue(taskResult[i].value) = "fatal"
            /\ (ScoreFailed(i) /\ ~IssuesFailed(i)) =>
                  /\ taskResult[i].value =
                         valueWith(i, issuesResult[i], ScoreMissing)
                  /\ CriticalSupplyChain(i) =>
                         levelOfValue(taskResult[i].value) = "fatal"

\* how often the message msg stands in the list items
occurrences(items, msg) == Cardinality({k \in 1..Len(items) : items[k] = msg})

\* C18: the description of the supply-chain path lists every distinct
\* '<severity> <type>' string of the supply-chain issues exactly once, be it
\* produced by one issue or by several, and lists nothing else.
C18_EachMessageOnce ==
    \A i \in Indices :
        (/\ issuePass[i].done
         /\ IssuesRetrieved(i)
         /\ supplyChainIssuesOf(issuesResult[i].data) # <<>>) =>
            LET issues == supplyChainIssuesOf(issuesResult[i].data)
                items == issuePass[i].st.description.items
            IN  /\ issuePass[i].st.description.kind = SupplyChainText
                /\ \A k \in 1..Len(issues) :
                      occurrences(items, issueMessage(issues[k])) = 1
                /\ \A k \in 1..Len(items) :
                      \E n \in 1..Len(issues) : items[k] = issueMessage(issues[n])

\* the rank C19 gives a severity: critical, high, middle, low, then the rest
severityRank(severity) ==
    IF indexOf(severityOrder, Nullish(severity, "")) >= 0
    THEN indexOf(severityOrder, Nullish(severity, ""))
    ELSE Len(severityOrder)

\* index of the top-ranked issue under that order: the first of the best rank
topRanked(issues) ==
    CHOOSE k \in 1..Len(issues) :
        /\ \A j \in 1..Len(issues) :
              severityRank(issues[k].severity) <= severityRank(issues[j].severity)
        /\ \A j \in 1..(k - 1) :
              severityRank(issues[j].severity) > severityRank(issues[k].severity)

\* C19: supply-chain issues are ordered critical, high, middle, low, and then
\* those of missing or unrecognized severity; hence the level and
\* primaryIssueType come from an issue of recognized severity whenever the
\* list holds one, and an unrecognized severity raises nothing.
C19_UnknownSeverityLast ==
    \A i \in Indices :
        (/\ issuePass[i].done
         /\ IssuesRetrieved(i)
         /\ supplyChainIssuesOf(issuesResult[i].data) # <<>>) =>
            LET issues == supplyChainIssuesOf(issuesResult[i].data)
                sorted == sortIssues(issues)
                top == issues[topRanked(issues)]
            IN  /\ ~issuePass[i].st.threw
                /\ \A a \in 1..Len(sorted), b \in 1..Len(sorted) :
                      a < b => severityRank(sorted[a].severity)
                                   <= severityRank(sorted[b].severity)
                /\ issuePass[i].st.riskLevel = levelOfHighest(top.severity)
                /\ impl = "concurrent" => issuePass[i].st.primaryIssueType = top.type

\* some answer of the risk service has reached the scanner
SomeOutcomeConsumed ==
    \E i \in Indices :
        \/ Settled(issuesResult[i])
        \/ Settled(scoreResult[i])
        \/ issuePass[i].done
        \/ taskResult[i].status = "fulfilled"

\* C20: in the scanner of src/src/scanner.ts the two queries of every package
\* of the batch are sent before the outcome of any query is consumed: once one
\* query is out all of them are, so no package waits for another package's
\* queries and no score query waits for its issue query.
C20_FanOut ==
    impl = "concurrent" =>
        /\ (\E i \in Indices : issued[i].issues > 0 \/ issued[i].score > 0) =>
              \A j \in Indices : issued[j].issues = 1 /\ issued[j].score = 1
        /\ SomeOutcomeConsumed =>
              \A j \in Indices :
                  /\ issued[j].issues = 1
                  /\ issued[j].score = 1
                  /\ issuesResult[j].status # "unsent"
                  /\ scoreResult[j].status # "unsent"

C20_Witness ==
    /\ impl = "concurrent"
    /\ pc = "awaitAll"
    /\ Len(packages) = 2
    /\ issuesResult[1].status = "pending"
    /\ Settled(scoreResult[1])
    /\ taskResult[1].status = "pending"
    /\ taskResult[2].status = "fulfilled"

-----------------------------------------------------------------------------
(* C21 .. C27 *)

\* number of queries sent for the packages 1..n
RECURSIVE queriesSent(_)
queriesSent(n) ==
    IF n = 0 THEN 0
    ELSE queriesSent(n - 1) + issued[n].issues + issued[n].score

\* C21: within one scan no query is sent a second time, whether it succeeded
\* or failed: a scan of N packages that ran to its end has sent each package's
\* issue query and score query exactly once, 2N queries in all.
C21_NoRetries ==
    /\ \A i \in Indices : issued[i].issues <= 1 /\ issued[i].score <= 1
    /\ \A i \in Indices :
          (Settled(issuesResult[i]) \/ Settled(scoreResult[i])) =>
              (issued[i].issues = 1 /\ issued[i].score = 1)
    /\ (pc = "returned" /\ client # NoClient) =>
          /\ \A i \in Indices : issued[i].issues = 1 /\ issued[i].score = 1
          /\ queriesSent(Len(packages)) = 2 * Len(packages)

C21_Witness ==
    /\ pc = "returned"
    /\ impl = "concurrent"
    /\ Len(packages) = 2
    /\ issuesResult[1] = IssuesRejected
    /\ scoreResult[1] = ScoreRejected
    /\ issuesResult[2] = IssuesUnsuccessful
    /\ queriesSent(Len(packages)) = 4

\* C22: the url of an advisory of the concurrent scanner is the issue page of
\* the top-ranked supply-chain issue's type exactly when the final description
\* is the 'Supply chain risks found:' text and that type is non-empty; in
\* every other case it is the overview page of the package.
C22_UrlDerivation ==
    \A i \in Indices :
        (/\ impl = "concurrent"
         /\ taskResult[i].status = "fulfilled"
         /\ taskResult[i].value.hasValue) =>
            LET advisory == taskResult[i].value.value
                issues == IF IssuesRetrieved(i)
                          THEN supplyChainIssuesOf(issuesResult[i].data)
                          ELSE <<>>
                topType == IF issues = <<>> THEN Undefined
                           ELSE issues[topRanked(issues)].type
            IN  IF /\ advisory.description.kind = SupplyChainText
                   /\ topType \notin {Undefined, ""}
                THEN advisory.url = IssueUrl(topType)
                ELSE advisory.url = PackageUrl(packages[i])

\* the list the concurrent scanner owes for the answers at hand: the advisories
\* of the packages 1..n in input order
RECURSIVE listInInputOrder(_)
listInInputOrder(n) ==
    IF n = 0 THEN <<>>
    ELSE LET own == valueWith(n, issuesResult[n], scoreResult[n])
         IN  IF own.hasValue
             THEN Append(listInInputOrder(n - 1), own.value)
             ELSE listInInputOrder(n - 1)

\* C23: the list the concurrent scanner returns is fixed by the answers alone,
\* whatever the order in which the 2N queries settled: it holds the advisories
\* in the order of their packages in the input, and nothing is put into it
\* before every per-package task has settled.
C23_OrderIndependent ==
    impl = "concurrent" =>
        /\ pc = "returned" => outcome.value = listInInputOrder(Len(packages))
        /\ pc # "returned" => (advisories = <<>> /\ outcome.value = <<>>)
        /\ advisories # <<>> => \A i \in Indices : taskResult[i].status = "fulfilled"

C23_Witness ==
    /\ impl = "concurrent"
    /\ pc = "returned"
    /\ Len(packages) = 2
    /\ Len(outcome.value) = 2
    /\ outcome.value[1].package = packages[1].name
    /\ outcome.value[2].package = packages[2].name
    /\ outcome.value[1].level = "warn"
    /\ outcome.value[2].level = "fatal"

\* every query of the scan has settled
AllQueriesSettled ==
    \A i \in Indices : Settled(issuesResult[i]) /\ Settled(scoreResult[i])

\* C24: a scan that runs with a credential returns its advisory list once
\* every query it sent has settled, and it returns no earlier: while one of
\* the 2N queries is unsettled the scan has not returned.
C24_Termination ==
    /\ []((pc = "returned" /\ client # NoClient) => AllQueriesSettled)
    /\ []((pc \in {"awaitAll", "loop"} /\ ~AllQueriesSettled) => outcome.kind = "pending")
    /\ (pc \in {"awaitAll", "loop"}) ~> (pc = "returned" /\ outcome.kind = "resolved")

C24_Witness ==
    /\ impl = "concurrent"
    /\ pc = "returned"
    /\ outcome.kind = "resolved"
    /\ Len(packages) = 2
    /\ AllQueriesSettled
    /\ issuesResult[2] = IssuesRejected
    /\ scoreResult[1] = ScoreRejected

\* the locals of package i after the issue pass and the score pass of the
\* scanner in force, computed from the answers it received
afterPasses(i) ==
    IF impl = "concurrent"
    THEN ScorePass(IssuePass(issuesResult[i]), scoreResult[i],
                   FATAL_RISK_THRESHOLD, WARN_RISK_THRESHOLD)
    ELSE SeqScorePass(SeqIssuePass(issuesResult[i]), scoreResult[i])

\* C25: a package whose level is not safe after the two passes has a
\* non-empty description, and no advisory, of a task or of the returned list,
\* carries the fallback text 'Security concerns detected for ...'.
C25_FallbackNeverEmitted ==
    /\ \A i \in Indices :
           taskResult[i].status = "fulfilled" =>
               /\ afterPasses(i).riskLevel # "safe" =>
                      afterPasses(i).description # EmptyDescription
               /\ taskResult[i].value.hasValue =>
                      taskResult[i].value.value.description.kind # FallbackText
    /\ \A k \in 1..Len(advisories) : advisories[k].description.kind # FallbackText
    /\ \A k \in 1..Len(outcome.value) : outcome.value[k].description.kind # FallbackText

\* a fatal advisory whose description comes from the score alone (the issue
\* query failed, so the description was still empty before the score pass)
C25_Witness ==
    /\ pc = "returned"
    /\ Len(packages) = 1
    /\ IssuesFailed(1)
    /\ ScorePresent(1)
    /\ scoreResult[1].score < FatalInForce
    /\ ListedWith(1, "fatal", Description(HighText, <<>>, <<scoreResult[1].score>>))

\* an advisory list without its url fields
withoutUrl(list) ==
    [k \in 1..Len(list) |-> [level |-> list[k].level,
                             package |-> list[k].package,
                             description |-> list[k].description]]

otherScanner == IF impl = "concurrent" THEN "sequential" ELSE "concurrent"

\* the list the scanner im builds for the first n packages from the answers
\* received, with the default thresholds
RECURSIVE listBy(_, _)
listBy(im, n) ==
    IF n = 0 THEN <<>>
    ELSE LET v == IF im = "concurrent"
                  THEN processPackage(packages[n], issuesResult[n], scoreResult[n],
                                      DEFAULT_FATAL_RISK_THRESHOLD,
                                      DEFAULT_WARN_RISK_THRESHOLD).task.value
                  ELSE seqProcessPackage(packages[n], issuesResult[n],
                                         scoreResult[n]).result
         IN  IF v.hasValue THEN Append(listBy(im, n - 1), v.value)
             ELSE listBy(im, n - 1)

\* the scanner in force resolved a key and works with the default thresholds
ScannedWithDefaults ==
    /\ pc = "returned"
    /\ outcome.kind = "resolved"
    /\ client # NoClient
    /\ FatalInForce = DEFAULT_FATAL_RISK_THRESHOLD
    /\ WarnInForce = DEFAULT_WARN_RISK_THRESHOLD

\* C26: with a key and the default thresholds, the list one scanner returns
\* and the list the other scanner builds from the same answers hold the same
\* packages in the same order with equal level and description; only the url
\* fields may differ.
C26_ScannersAgree ==
    ScannedWithDefaults =>
        withoutUrl(outcome.value) = withoutUrl(listBy(otherScanner, Len(packages)))

\* two packages listed, the first with the issue url that only the
\* concurrent scanner produces
C26_Witness ==
    /\ ScannedWithDefaults
    /\ impl = "concurrent"
    /\ Len(outcome.value) = 2
    /\ outcome.value[1].url.kind = IssueUrl("malware").kind
    /\ outcome.value # listBy("sequential", Len(packages))
    /\ withoutUrl(outcome.value) = withoutUrl(listBy("sequential", Len(packages)))

Terminators == {CR, LF, ETX}

hasTerminator(str) == \E k \in 1..Len(str) : str[k] \in Terminators

\* C27: readPassword ends at the first Enter or Ctrl+C among the data it
\* received, whatever the chunking: once a chunk holding one arrived the
\* promise has settled, a resolved string holds no carriage return, line feed
\* or Ctrl+C, resolve or reject is called once, and exactly then raw mode is
\* switched off and the listener removed, once each.
C27_EndsAtFirstTerminator ==
    /\ (\E k \in 1..Len(received) : hasTerminator(toString(received[k]))) =>
           password.kind \in {"resolved", "rejected"}
    /\ password.kind = "resolved" => ~hasTerminator(password.value)
    /\ password.settleCalls <= 1
    /\ password.kind \in {"resolved", "rejected"} =>
           /\ password.settleCalls = 1
           /\ stdin.rawOffCalls = 1 /\ ~stdin.isRaw
           /\ stdin.removeCalls = 1 /\ stdin.listeners = 0
    /\ password.kind = "pending" =>
           /\ stdin.rawOffCalls = 0 /\ stdin.isRaw
           /\ stdin.removeCalls = 0 /\ stdin.listeners = 1

====
